---- MODULE Spec2Model ----
(***************************************************************************)
(* gdrive-dir-push: push a local directory tree into a Google Drive        *)
(* folder.  The model follows src/gdrive-dir-push.go (main, processNode,   *)
(* tallyOp and the four remote wrappers) and the directory_tree package    *)
(* (NewTree).  Drive identifiers and flag values are strings, "" being the *)
(* empty string of the Go source; a local path is the sequence of its      *)
(* components below the filesystem root, so "/" is << >>.                  *)
(***************************************************************************)
EXTENDS Integers, Sequences, FiniteSets, TLC

VARIABLES
  gDriveRootID,    \* flag --gdrive_root_id
  localDirToPush,  \* flag --local_dir_to_push
  oldFilesDir,     \* flag --old_files_dir
  maxOps,          \* flag --max_gdrive_ops
  opsExecuted,     \* the package-level counter
  fs,              \* the local filesystem below the scanned directory: path -> is-directory
  nodes,           \* the directory_tree nodes, by FullPath
  tree,            \* NewTree's result: {} is the nil pointer, {p} the node at p
  stack,           \* the processNode activations, outermost first
  remote,          \* the Drive store: id -> [Title, IsFolder, Parents]
  remote0,         \* the Drive store as the first run found it
  nextId,          \* the Drive store's identifier generator
  calls,           \* the Drive API calls issued so far by this process, in order
  out,             \* the status lines printed so far by this process, in order
  status,          \* where the process is: "start", "running", "done" or how it died
  history          \* what the earlier processes of this scenario printed and issued

vars == <<gDriveRootID, localDirToPush, oldFilesDir, maxOps, opsExecuted, fs, nodes,
          tree, stack, remote, remote0, nextId, calls, out, status, history>>

flags == <<gDriveRootID, localDirToPush, oldFilesDir, maxOps>>

(***************************************************************************)
(* Bounds of the model.                                                    *)
(***************************************************************************)
\* the largest number of local entries below the scanned directory
MaxNodes == 2
\* the largest number of entries of the Drive store before the first run
MaxRemote == 2
\* the ceilings tried, besides the flag's default, are 0..MaxCeiling
MaxCeiling == 1

\* the default of --max_gdrive_ops
DefaultMaxOps == 20

\* file and folder names
NameOrder == <<"a", "b">>

Names == {NameOrder[i] : i \in 1..Len(NameOrder)}

(***************************************************************************)
(* Paths (path/filepath).                                                  *)
(***************************************************************************)
\* filepath.Abs of the values --local_dir_to_push takes in this model
Abs(dir) == IF dir = "/" THEN << >> ELSE <<"r">>

\* filepath.Dir: the filesystem root is its own directory
Dir(path) == IF path = << >> THEN << >> ELSE SubSeq(path, 1, Len(path) - 1)

\* filepath.Base, for a path other than the filesystem root
Base(path) == path[Len(path)]

\* filepath.Rel(base, path), for a path below base
Rel(base, path) == SubSeq(path, Len(base) + 1, Len(path))

(***************************************************************************)
(* The local filesystems scanned: a directory with at most MaxNodes        *)
(* entries below it, each a file or a directory.                           *)
(***************************************************************************)
Grow(fsys) ==
  {fsys @@ (Append(p, n) :> d) :
     <<p, n, d>> \in {x \in (DOMAIN fsys) \X Names \X BOOLEAN :
                        fsys[x[1]] /\ Append(x[1], x[2]) \notin DOMAIN fsys}}

RECURSIVE FileSystems(_, _)
FileSystems(root, k) ==
  IF k = 0 THEN {(root :> TRUE)}
  ELSE LET smaller == FileSystems(root, k - 1)
       IN smaller \cup UNION {Grow(f) : f \in smaller}

\* the orders in which a Go map with key set S may be ranged over
RECURSIVE Perms(_)
Perms(S) ==
  IF S = {} THEN {<< >>}
  ELSE UNION {{<<x>> \o p : p \in Perms(S \ {x})} : x \in S}

(***************************************************************************)
(* directory_tree.NewTree                                                  *)
(***************************************************************************)
NewNode(path, isDir) ==
  [FullPath |-> path, IsDir |-> isDir, Children |-> << >>, Parent |-> {}, DriveID |-> ""]

\* one iteration of the linking loop, on the nodes and the result so far
Link(acc, path) ==
  LET parentPath == Dir(path)
  IN IF parentPath \notin DOMAIN acc.parents
     THEN [acc EXCEPT !.result = {path}]
     ELSE [acc EXCEPT !.parents =
             [[acc.parents EXCEPT ![path].Parent = {parentPath}]
                EXCEPT ![parentPath].Children = Append(@, path)]]

RECURSIVE LinkAll(_, _, _)
LinkAll(acc, order, i) ==
  IF i > Len(order) THEN acc ELSE LinkAll(Link(acc, order[i]), order, i + 1)

\* the nodes and the result of NewTree on fsys, the map being ranged over in `order`
NewTree(fsys, order) ==
  LinkAll([parents |-> [p \in DOMAIN fsys |-> NewNode(p, fsys[p])], result |-> {}],
          order, 1)

(***************************************************************************)
(* The Drive store.  An entry has a title, a type and a set of parents;    *)
(* the folder "root" exists apart from the entries, and so does the        *)
(* folder "old".                                                           *)
(***************************************************************************)
NoEntries == [id \in {} |-> 0]

Folders(store) == {"root", "old"} \cup {id \in DOMAIN store : store[id].IsFolder}

EntryId(i) == "e" \o ToString(i)

\* The stores are enumerated up to the naming of their entries: an entry is numbered
\* after the entries of the folders numbered before its own folder, and after those
\* of its own folder that come before it by title and type.
EntryKey(store, title, isFolder, parentID) ==
  <<IF parentID = "root" THEN 0
    ELSE CHOOSE i \in 1..Cardinality(DOMAIN store) : EntryId(i) = parentID,
    CHOOSE i \in 1..Len(NameOrder) : NameOrder[i] = title,
    IF isFolder THEN 1 ELSE 0>>

KeyLeq(x, y) ==
  \/ x[1] < y[1]
  \/ x[1] = y[1] /\ x[2] < y[2]
  \/ x[1] = y[1] /\ x[2] = y[2] /\ x[3] <= y[3]

GrowRemote(store) ==
  LET n == Cardinality(DOMAIN store)
      last == store[EntryId(n)]
      lastKey == EntryKey(store, last.Title, last.IsFolder, CHOOSE p \in last.Parents : TRUE)
  IN {store @@ (EntryId(n + 1) :> [Title |-> t, IsFolder |-> d, Parents |-> {p}]) :
        <<t, d, p>> \in {x \in Names \X BOOLEAN \X (Folders(store) \ {"old"}) :
                           n = 0 \/ KeyLeq(lastKey, EntryKey(store, x[1], x[2], x[3]))}}

RECURSIVE Remotes(_)
Remotes(k) ==
  IF k = 0 THEN {NoEntries}
  ELSE LET smaller == Remotes(k - 1)
       IN smaller \cup UNION {GrowRemote(r) : r \in smaller}

\* the identifier the store gives to the next entry created
FreshId == "n" \o ToString(nextId)

\* Files.List with the query "'parentID' in parents": the children, in any order
ChildrenOf(store, parentID) == {id \in DOMAIN store : parentID \in store[id].Parents}

RemoteItem(id) == [Id |-> id, Title |-> remote[id].Title, IsFolder |-> remote[id].IsFolder]

Listings(parentID) ==
  {[k \in 1..Len(order) |-> RemoteItem(order[k])] : order \in Perms(ChildrenOf(remote, parentID))}

\* Files.Insert of a new entry under parentID
FilesInsert(store, id, title, isFolder, parentID) ==
  store @@ (id :> [Title |-> title, IsFolder |-> isFolder, Parents |-> {parentID}])

\* Parents.Insert: the store adds parentID to the parents of fileID
ParentsInsert(store, fileID, parentID) ==
  [store EXCEPT ![fileID].Parents = @ \cup {parentID}]

\* Parents.Delete: the store removes parentID from the parents of fileID
ParentsDelete(store, fileID, parentID) ==
  [store EXCEPT ![fileID].Parents = @ \ {parentID}]

\* one Drive API call, as the store saw it
Call(op, path, id, parentID, found, ok) ==
  [op |-> op, path |-> path, id |-> id, parent |-> parentID, found |-> found, ok |-> ok]

MutatingOps == {"Files.Insert folder", "Files.Insert media", "Parents.Insert", "Parents.Delete"}

(***************************************************************************)
(* Initial states: the flags as parsed, the counter at zero, nothing       *)
(* scanned, no call issued.                                                *)
(***************************************************************************)
InitProcess ==
  /\ opsExecuted = 0
  /\ fs = NoEntries
  /\ nodes = NoEntries
  /\ tree = {}
  /\ stack = << >>
  /\ calls = << >>
  /\ out = << >>
  /\ status = "start"

InitFlags ==
  /\ gDriveRootID \in {"", "root"}
  /\ localDirToPush \in {"", "/", "/r"}
  /\ oldFilesDir \in {"", "old", "root"}
  /\ maxOps \in (0..MaxCeiling) \cup {DefaultMaxOps}

Init ==
  /\ InitFlags
  /\ InitProcess
  /\ remote \in Remotes(MaxRemote)
  /\ remote0 = remote
  /\ nextId = 1
  /\ history = << >>

(***************************************************************************)
(* tallyOp                                                                 *)
(***************************************************************************)
\* tallyOp testing against one more than the ceiling
ExceededOffByOne(n) == n > maxOps + 1

\* the test of tallyOp on the counter it has just incremented
Exceeded(n) == n > maxOps

(***************************************************************************)
(* processNode: the activation on top of the stack, its node and the child *)
(* the loop is at.                                                         *)
(***************************************************************************)
\* an activation whose loop starts at the second child
FrameSkipsFirst(path) == [node |-> path, remoteItems |-> << >>, i |-> 2, pc |-> "list"]

Frame(path) == [node |-> path, remoteItems |-> << >>, i |-> 1, pc |-> "list"]

Top == stack[Len(stack)]

Node == nodes[Top.node]

AtItem == status = "running" /\ Top.pc # "list" /\ Top.i <= Len(Node.Children)

ItemPath == Node.Children[Top.i]

LocalItem == nodes[ItemPath]

\* Info.Name of a node: os.FileInfo's base name
InfoName(path) == Base(path)

\* the inner loop of processNode: the index of the first remote item whose title is
\* the name, 0 if there is none
RECURSIVE MatchFrom(_, _, _)
MatchFrom(remoteItems, name, k) ==
  IF k > Len(remoteItems) THEN 0
  ELSE IF remoteItems[k].Title = name THEN k
  ELSE MatchFrom(remoteItems, name, k + 1)

\* a loop that never finds the name
MatchNever(remoteItems, name) == 0

\* a loop that takes the first item, whatever its title
MatchAny(remoteItems, name) == IF Len(remoteItems) = 0 THEN 0 ELSE 1

\* a loop that only takes folders
MatchFoldersOnly(remoteItems, name) ==
  LET S == {k \in DOMAIN remoteItems :
              remoteItems[k].Title = name /\ remoteItems[k].IsFolder}
  IN IF S = {} THEN 0 ELSE CHOOSE k \in S : \A j \in S : k <= j

Match(remoteItems, name) == MatchFrom(remoteItems, name, 1)

Found == Match(Top.remoteItems, InfoName(ItemPath)) # 0

MatchId == Top.remoteItems[Match(Top.remoteItems, InfoName(ItemPath))].Id

\* the marker of a directory left at the one of a created folder
StatusPrefixDirCreated(isDir, found) ==
  IF isDir THEN "+" ELSE (IF found THEN "M" ELSE "+")

\* the marker of a status line
StatusPrefix(isDir, found) ==
  IF isDir THEN (IF found THEN " " ELSE "+") ELSE (IF found THEN "M" ELSE "+")

\* a status line: the marker, the path relative to --local_dir_to_push, and whether
\* it is printed with the trailing slash of a directory
Line(prefix, path) ==
  [prefix |-> prefix, relName |-> Rel(Abs(localDirToPush), path), dir |-> nodes[path].IsDir]

\* relocateFile moving a file into the folder pushed to
NewParentIsRoot == gDriveRootID

\* the folder relocateFile moves a file into
NewParent == oldFilesDir

\* relocateFile removing the folder it has just added
OldParentIsNewParent(oldParentID) == oldFilesDir

\* the folder relocateFile removes a file from, given the one processNode passes
OldParent(oldParentID) == oldParentID

\* the error of a remote wrapper dropped: the process goes on where it is
ErrorIgnored ==
  /\ status' = status
  /\ stack' = stack

\* an error comes back from a remote wrapper: processNode returns it through every
\* activation and main ends the process
ReturnError ==
  /\ status' = "fatal: error"
  /\ stack' = << >>

\* log.Fatalf in tallyOp: the process ends where it is
FatalMaxOps ==
  /\ status' = "fatal: max_gdrive_ops"
  /\ stack' = stack

SetTop(frame) == [stack EXCEPT ![Len(stack)] = frame]

\* the call of processNode on a child put off until the loop over its siblings is
\* over: the loop goes on with the next child first
RecurseLater(path) == <<Frame(path)>> \o SetTop([Top EXCEPT !.i = @ + 1])

\* the call of processNode on a child, from within the loop of its parent
Recurse(path) == Append(stack, Frame(path))

(***************************************************************************)
(* main, up to the call of processNode on the root.                        *)
(***************************************************************************)
\* main without its test of --old_files_dir
OldFilesDirNotRequired == gDriveRootID = "" \/ localDirToPush = ""

\* main without its test of --gdrive_root_id
RootIdNotRequired == localDirToPush = "" \/ oldFilesDir = ""

RequiredFlagMissing == gDriveRootID = "" \/ localDirToPush = "" \/ oldFilesDir = ""

\* what a scan of a directory can return: NewTree on any filesystem below it, its
\* map ranged over in any order
Scans ==
  [dir \in {"/", "/r"} |->
     {NewTree(f, order) :
        <<f, order>> \in UNION {{f} \X Perms(DOMAIN f) : f \in FileSystems(Abs(dir), MaxNodes)}}]

\* the filesystem a tree was scanned from
Scanned(t) == [p \in DOMAIN t.parents |-> t.parents[p].IsDir]

\* a scan may find any filesystem when none is known yet; when the filesystem is
\* known (given from the start, or found by the first run) the scan finds it, its
\* map ranged over in any order
Scannable ==
  IF fs = NoEntries THEN Scans[localDirToPush]
  ELSE {NewTree(fs, order) : order \in Perms(DOMAIN fs)}

Main ==
  /\ status = "start"
  /\ \/ /\ RequiredFlagMissing
        /\ status' = "fatal: flag"
        /\ UNCHANGED <<fs, nodes, tree, stack>>
     \/ /\ ~RequiredFlagMissing
        /\ status' = "fatal: client"
        /\ UNCHANGED <<fs, nodes, tree, stack>>
     \/ /\ ~RequiredFlagMissing
        /\ status' = "fatal: scan"
        /\ UNCHANGED <<fs, nodes, tree, stack>>
     \/ /\ ~RequiredFlagMissing
        /\ \E t \in Scannable :
             /\ fs' = Scanned(t)
             /\ tree' = t.result
             /\ IF t.result = {}
                THEN /\ nodes' = t.parents
                     /\ stack' = << >>
                     /\ status' = "panic: nil tree"
                ELSE LET root == CHOOSE p \in t.result : TRUE
                     IN /\ nodes' = [t.parents EXCEPT ![root].DriveID = gDriveRootID]
                        /\ stack' = <<Frame(root)>>
                        /\ status' = "running"
  /\ UNCHANGED <<flags, opsExecuted, remote, remote0, nextId, calls, out, history>>

(***************************************************************************)
(* processNode, one action for each remote call and the code up to the     *)
(* next one.                                                               *)
(***************************************************************************)
\* the entry of processNode: listFolder
ListFolder ==
  /\ status = "running"
  /\ Top.pc = "list"
  /\ \/ \E items \in Listings(Node.DriveID) :
          /\ calls' = Append(calls, Call("Files.List", Top.node, Node.DriveID, "", FALSE, TRUE))
          /\ stack' = SetTop([Top EXCEPT !.remoteItems = items, !.pc = "items"])
          /\ status' = status
     \/ /\ calls' = Append(calls, Call("Files.List", Top.node, Node.DriveID, "", FALSE, FALSE))
        /\ ReturnError
  /\ UNCHANGED <<flags, opsExecuted, fs, nodes, tree, remote, remote0, nextId, out, history>>

\* a directory with a remote match: its DriveID is the match's, and processNode recurses
AdoptFolder ==
  /\ AtItem
  /\ LocalItem.IsDir
  /\ Found
  /\ nodes' = [nodes EXCEPT ![ItemPath].DriveID = MatchId]
  /\ out' = Append(out, Line(StatusPrefix(TRUE, TRUE), ItemPath))
  /\ stack' = Recurse(ItemPath)
  /\ UNCHANGED <<flags, opsExecuted, fs, tree, remote, remote0, nextId, calls, status, history>>

\* a directory without a remote match: createFolder, then processNode recurses
CreateFolder ==
  /\ AtItem
  /\ LocalItem.IsDir
  /\ ~Found
  /\ opsExecuted' = opsExecuted + 1
  /\ IF Exceeded(opsExecuted + 1)
     THEN /\ FatalMaxOps
          /\ UNCHANGED <<nodes, remote, nextId, calls, out>>
     ELSE \/ /\ calls' = Append(calls, Call("Files.Insert folder", ItemPath, FreshId,
                                            Node.DriveID, FALSE, TRUE))
             /\ remote' = FilesInsert(remote, FreshId, InfoName(ItemPath), TRUE, Node.DriveID)
             /\ nextId' = nextId + 1
             /\ nodes' = [nodes EXCEPT ![ItemPath].DriveID = FreshId]
             /\ out' = Append(out, Line(StatusPrefix(TRUE, FALSE), ItemPath))
             /\ stack' = Recurse(ItemPath)
             /\ status' = status
          \/ /\ calls' = Append(calls, Call("Files.Insert folder", ItemPath, "",
                                            Node.DriveID, FALSE, FALSE))
             /\ ReturnError
             /\ UNCHANGED <<nodes, remote, nextId, out>>
  /\ UNCHANGED <<flags, fs, tree, remote0, history>>

\* a file with a remote match: its DriveID is the match's; relocateFile tallies and
\* adds the folder of old files to the match's parents
RelocateInsert ==
  /\ AtItem
  /\ Top.pc = "items"
  /\ ~LocalItem.IsDir
  /\ Found
  /\ nodes' = [nodes EXCEPT ![ItemPath].DriveID = MatchId]
  /\ opsExecuted' = opsExecuted + 1
  /\ IF Exceeded(opsExecuted + 1)
     THEN /\ FatalMaxOps
          /\ UNCHANGED <<remote, calls>>
     ELSE \/ /\ calls' = Append(calls, Call("Parents.Insert", ItemPath, MatchId,
                                            NewParent, TRUE, TRUE))
             /\ remote' = ParentsInsert(remote, MatchId, NewParent)
             /\ stack' = SetTop([Top EXCEPT !.pc = "delete"])
             /\ status' = status
          \/ /\ calls' = Append(calls, Call("Parents.Insert", ItemPath, MatchId,
                                            NewParent, TRUE, FALSE))
             /\ ReturnError
             /\ UNCHANGED remote
  /\ UNCHANGED <<flags, fs, tree, remote0, nextId, out, history>>

\* the rest of relocateFile: the current folder leaves the match's parents
RelocateDelete ==
  /\ AtItem
  /\ Top.pc = "delete"
  /\ \/ /\ calls' = Append(calls, Call("Parents.Delete", ItemPath, LocalItem.DriveID,
                                       OldParent(Node.DriveID), TRUE, TRUE))
        /\ remote' = ParentsDelete(remote, LocalItem.DriveID, OldParent(Node.DriveID))
        /\ stack' = SetTop([Top EXCEPT !.pc = "upload"])
        /\ status' = status
     \/ /\ calls' = Append(calls, Call("Parents.Delete", ItemPath, LocalItem.DriveID,
                                       OldParent(Node.DriveID), TRUE, FALSE))
        /\ ReturnError
        /\ UNCHANGED remote
  /\ UNCHANGED <<flags, opsExecuted, fs, nodes, tree, remote0, nextId, out, history>>

\* createFile, for a file without a remote match or after its match was relocated
CreateFile ==
  /\ AtItem
  /\ ~LocalItem.IsDir
  /\ \/ Top.pc = "items" /\ ~Found
     \/ Top.pc = "upload"
  /\ opsExecuted' = opsExecuted + 1
  /\ IF Exceeded(opsExecuted + 1)
     THEN /\ FatalMaxOps
          /\ UNCHANGED <<nodes, remote, nextId, calls, out>>
     ELSE \/ /\ status' = "fatal: open"
             /\ UNCHANGED <<nodes, stack, remote, nextId, calls, out>>
          \/ /\ calls' = Append(calls, Call("Files.Insert media", ItemPath, FreshId,
                                            Node.DriveID, Found, TRUE))
             /\ remote' = FilesInsert(remote, FreshId, Base(ItemPath), FALSE, Node.DriveID)
             /\ nextId' = nextId + 1
             /\ nodes' = [nodes EXCEPT ![ItemPath].DriveID = FreshId]
             /\ out' = Append(out, Line(StatusPrefix(FALSE, Found), ItemPath))
             /\ stack' = SetTop([Top EXCEPT !.i = @ + 1, !.pc = "items"])
             /\ status' = status
          \/ /\ calls' = Append(calls, Call("Files.Insert media", ItemPath, "",
                                            Node.DriveID, Found, FALSE))
             /\ ReturnError
             /\ UNCHANGED <<nodes, remote, nextId, out>>
  /\ UNCHANGED <<flags, fs, tree, remote0, history>>

\* the loop is over: processNode returns nil, to the loop of its caller or to main
Return ==
  /\ status = "running"
  /\ Top.pc = "items"
  /\ Top.i > Len(Node.Children)
  /\ IF Len(stack) = 1
     THEN /\ stack' = << >>
          /\ status' = "done"
     ELSE /\ stack' = [SubSeq(stack, 1, Len(stack) - 1) EXCEPT
                         ![Len(stack) - 1].i = @ + 1]
          /\ status' = status
  /\ UNCHANGED <<flags, opsExecuted, fs, nodes, tree, remote, remote0, nextId, calls, out,
                 history>>

\* the process has finished and the program is started again, with the same flags,
\* on the same local directory
Rerun ==
  /\ status = "done"
  /\ history = << >>
  /\ history' = <<[out |-> out, calls |-> calls, opsExecuted |-> opsExecuted,
                   nodes |-> nodes]>>
  /\ opsExecuted' = 0
  /\ nodes' = NoEntries
  /\ tree' = {}
  /\ stack' = << >>
  /\ calls' = << >>
  /\ out' = << >>
  /\ status' = "start"
  /\ UNCHANGED <<flags, fs, remote, remote0, nextId>>

Next ==
  \/ Main
  \/ ListFolder
  \/ AdoptFolder
  \/ CreateFolder
  \/ RelocateInsert
  \/ RelocateDelete
  \/ CreateFile
  \/ Return

Spec == Init /\ [][Next]_vars

\* two runs in a row against a store whose root folder starts empty
InitTwice ==
  /\ InitFlags
  /\ InitProcess
  /\ remote = NoEntries
  /\ remote0 = remote
  /\ nextId = 1
  /\ history = << >>

NextTwice == Next \/ Rerun

SpecTwice == InitTwice /\ [][NextTwice]_vars

\* a run with valid flags and the default ceiling on a filesystem that is given from
\* the start and may hold one entry more than those of Init, so that a directory
\* can have both a child and a sibling that follows it
InitGiven ==
  /\ gDriveRootID = "root"
  /\ localDirToPush = "/r"
  /\ maxOps = DefaultMaxOps
  /\ remote \in Remotes(MaxRemote)
  /\ fs \in FileSystems(Abs("/r"), MaxNodes + 1)
  /\ opsExecuted = 0
  /\ nodes = NoEntries
  /\ tree = {}
  /\ stack = << >>
  /\ calls = << >>
  /\ out = << >>
  /\ status = "start"
  /\ remote0 = remote
  /\ nextId = 1
  /\ history = << >>

\* the folder of old files is one that is not pushed to
InitDeep ==
  /\ InitGiven
  /\ oldFilesDir = "old"

SpecDeep == InitDeep /\ [][Next]_vars

\* as InitDeep, the folder of old files being any folder of the store, those pushed
\* to included
InitOrders ==
  /\ InitGiven
  /\ oldFilesDir \in Folders(remote)

\* the program has finished and is run once more on the same filesystem with the
\* same flags against the store as it was before the first run: the scan may range
\* over its map in another order
RunAgain ==
  /\ status = "done"
  /\ history = << >>
  /\ history' = <<[out |-> out, calls |-> calls, opsExecuted |-> opsExecuted,
                   nodes |-> nodes, remote |-> remote]>>
  /\ remote' = remote0
  /\ nextId' = 1
  /\ opsExecuted' = 0
  /\ nodes' = NoEntries
  /\ tree' = {}
  /\ stack' = << >>
  /\ calls' = << >>
  /\ out' = << >>
  /\ status' = "start"
  /\ UNCHANGED <<flags, fs, remote0>>

NextOrders == Next \/ RunAgain

SpecOrders == InitOrders /\ [][NextOrders]_vars

\* the process is the only one and goes on as long as it has a step to take: every
\* remote call returns, with a result or with an error
SpecFair == Spec /\ WF_vars(Next)

(***************************************************************************)
(* Vocabulary of the properties.                                           *)
(***************************************************************************)
\* the positions in the call log of the calls of the given kinds
CallsOf(ops) == {k \in DOMAIN calls : calls[k].op \in ops}

LastCall == calls[Len(calls)]

\* the entries of a folder that carry a title
TitledIn(store, folder, title) ==
  {id \in DOMAIN store : folder \in store[id].Parents /\ store[id].Title = title}

\* a listing holds an entry of that title
ListingHas(remoteItems, name) == \E k \in DOMAIN remoteItems : remoteItems[k].Title = name

\* the activations that have their listing
Listed == {n \in DOMAIN stack : stack[n].pc # "list"}

\* the children an activation's loop has finished with
Finished(n) == {nodes[stack[n].node].Children[j] : j \in 1..(stack[n].i - 1)}

\* the children an activation has printed the status line of
Printed(n) ==
  Finished(n) \cup (IF n < Len(stack) THEN {nodes[stack[n].node].Children[stack[n].i]} ELSE {})

\* the local entries below the scanned directory
NonRoot == DOMAIN nodes \ tree

HasLine(lines, prefix, path) ==
  \E k \in DOMAIN lines :
    lines[k].prefix = prefix /\ lines[k].relName = Rel(Abs(localDirToPush), path)

\* the store after the successful calls from the k-th on of a call log
ApplyCall(store, c) ==
  IF ~c.ok THEN store
  ELSE CASE c.op = "Files.Insert folder" -> FilesInsert(store, c.id, Base(c.path), TRUE, c.parent)
         [] c.op = "Files.Insert media" -> FilesInsert(store, c.id, Base(c.path), FALSE, c.parent)
         [] c.op = "Parents.Insert" -> ParentsInsert(store, c.id, c.parent)
         [] c.op = "Parents.Delete" -> ParentsDelete(store, c.id, c.parent)
         [] OTHER -> store

RECURSIVE Replay(_, _, _)
Replay(store, log, k) ==
  IF k > Len(log) THEN store ELSE Replay(ApplyCall(store, log[k]), log, k + 1)

(***************************************************************************)
(* C1                                                                      *)
(***************************************************************************)
\* C1: in every reachable state the number of mutating remote calls issued so far,
\* the two calls of a relocation counted separately, is at most the ceiling.
C1_MutatingCallsWithinCeiling == Cardinality(CallsOf(MutatingOps)) <= maxOps

(***************************************************************************)
(* C2                                                                      *)
(***************************************************************************)
\* C2: every mutating remote call increments the counter once before it executes and
\* a listing never does, so that, unless the process ended between an increment and
\* its call (at the ceiling, or on a local file that cannot be opened), the counter
\* is the number of mutating calls issued: folders created, uploads started and two
\* for each relocation.
C2_CounterCountsEveryCall ==
  status \notin {"fatal: max_gdrive_ops", "fatal: open"} =>
    opsExecuted = Cardinality(CallsOf(MutatingOps))

(***************************************************************************)
(* C3                                                                      *)
(***************************************************************************)
\* C3: the counter exceeds the ceiling exactly when the process has been ended by
\* tallyOp; it then exceeds it by one, the call the increment was for has not been
\* issued (the calls that follow an increment number as many as the ceiling) and
\* nothing more happens, whichever operation incremented.
C3_AbortAtCeiling ==
  /\ opsExecuted > maxOps <=> status = "fatal: max_gdrive_ops"
  /\ status = "fatal: max_gdrive_ops" =>
       /\ opsExecuted = maxOps + 1
       /\ Cardinality(CallsOf({"Files.Insert folder", "Files.Insert media",
                               "Parents.Insert"})) = maxOps
       /\ ~ENABLED Next

\* ceiling 1 and two folders to create: one is created, the process ends at the second
C3_Witness ==
  /\ status = "fatal: max_gdrive_ops"
  /\ maxOps = 1
  /\ Cardinality(CallsOf({"Files.Insert folder"})) = 1
  /\ \A k \in CallsOf({"Files.Insert folder"}) : calls[k].ok /\ calls[k].id \in DOMAIN remote
  /\ LocalItem.IsDir /\ ~ListingHas(Top.remoteItems, Base(ItemPath))

(***************************************************************************)
(* C4                                                                      *)
(***************************************************************************)
\* C4: the upload of a file whose name is in its parent's listing comes right after
\* the two calls that relocate the matched entry, both successful: first the folder
\* of old files is added to its parents, then the current folder removed; a
\* relocation is these two calls and no more; a file whose name is not in the
\* listing is uploaded without any relocation.
C4_RelocateThenUpload ==
  /\ \A k \in DOMAIN calls :
       LET c == calls[k]
       IN /\ (c.op = "Files.Insert media" /\ c.found) =>
               /\ k >= 3
               /\ calls[k - 2] = Call("Parents.Insert", c.path, calls[k - 1].id,
                                      oldFilesDir, TRUE, TRUE)
               /\ calls[k - 1] = Call("Parents.Delete", c.path, calls[k - 1].id,
                                      c.parent, TRUE, TRUE)
          /\ (c.op = "Files.Insert media" /\ ~c.found) =>
               \A j \in CallsOf({"Parents.Insert", "Parents.Delete"}) : calls[j].path # c.path
          /\ c.op = "Parents.Insert" =>
               /\ k < Len(calls) => calls[k + 1].op = "Parents.Delete"
               /\ \A j \in CallsOf({"Parents.Insert"}) : calls[j].path = c.path => j = k
          /\ c.op = "Parents.Delete" =>
               /\ k > 1 /\ calls[k - 1].op = "Parents.Insert" /\ calls[k - 1].ok
               /\ k < Len(calls) => calls[k + 1].op = "Files.Insert media"
               /\ \A j \in CallsOf({"Parents.Delete"}) : calls[j].path = c.path => j = k
  /\ \A n \in Listed : \A p \in Finished(n) :
       ~nodes[p].IsDir =>
         \E k \in CallsOf({"Files.Insert media"}) :
           /\ calls[k].path = p
           /\ calls[k].ok
           /\ calls[k].found = ListingHas(stack[n].remoteItems, Base(p))
           /\ calls[k].found =>
                \E i \in DOMAIN stack[n].remoteItems :
                  /\ stack[n].remoteItems[i].Title = Base(p)
                  /\ stack[n].remoteItems[i].Id = calls[k - 1].id

\* a matched file and an unmatched one have both been uploaded
C4_Witness ==
  /\ \E k \in CallsOf({"Files.Insert media"}) : calls[k].found /\ calls[k].ok
  /\ \E k \in CallsOf({"Files.Insert media"}) : ~calls[k].found /\ calls[k].ok

(***************************************************************************)
(* C5                                                                      *)
(***************************************************************************)
\* C5: of two complete runs in a row on the same local directory, against a store
\* that starts empty, the first reports every entry created, creates every folder
\* once and performs one mutating operation for each entry; the second reports
\* every directory unchanged and every file modified, and creates no folder.
C5_TwoRuns ==
  /\ (status = "done" /\ history = << >>) =>
       /\ \A p \in NonRoot : HasLine(out, "+", p)
       /\ Len(out) = Cardinality(NonRoot)
       /\ \A p \in NonRoot :
            nodes[p].IsDir =>
              Cardinality({k \in CallsOf({"Files.Insert folder"}) : calls[k].path = p}) = 1
       /\ opsExecuted = Cardinality(NonRoot)
       /\ Cardinality(CallsOf(MutatingOps)) = Cardinality(NonRoot)
  /\ (status = "done" /\ history # << >>) =>
       /\ \A p \in NonRoot : HasLine(out, IF nodes[p].IsDir THEN " " ELSE "M", p)
       /\ Len(out) = Cardinality(NonRoot)
       /\ CallsOf({"Files.Insert folder"}) = {}

\* the second run is over, on a directory holding a directory and a file
C5_Witness ==
  /\ status = "done"
  /\ history # << >>
  /\ \E p \in NonRoot : nodes[p].IsDir
  /\ \E p \in NonRoot : ~nodes[p].IsDir

(***************************************************************************)
(* C6                                                                      *)
(***************************************************************************)
\* C6: a local entry whose name is not in its parent's listing is reported created,
\* and the DriveID of an entry reported created is the identifier the one successful
\* createFolder or createFile call for it returned: not empty, and not the DriveID
\* of any of its siblings.
C6_CreatedIdIsReturnedId ==
  /\ \A n \in Listed : \A p \in Printed(n) :
       ~ListingHas(stack[n].remoteItems, Base(p)) => HasLine(out, "+", p)
  /\ \A p \in NonRoot :
       HasLine(out, "+", p) =>
         /\ \E k \in CallsOf({"Files.Insert folder", "Files.Insert media"}) :
              /\ calls[k].path = p
              /\ calls[k].ok
              /\ calls[k].id = nodes[p].DriveID
              /\ (calls[k].op = "Files.Insert folder") = nodes[p].IsDir
         /\ Cardinality({k \in CallsOf({"Files.Insert folder", "Files.Insert media"}) :
                           calls[k].path = p}) = 1
         /\ nodes[p].DriveID # ""
         /\ \A q \in NonRoot : (q # p /\ Dir(q) = Dir(p)) => nodes[q].DriveID # nodes[p].DriveID

\* a successful run that created two siblings
C6_Witness ==
  /\ status = "done"
  /\ \E p, q \in NonRoot :
       p # q /\ Dir(p) = Dir(q) /\ HasLine(out, "+", p) /\ HasLine(out, "+", q)

(***************************************************************************)
(* C7                                                                      *)
(***************************************************************************)
\* the last call was the successful upload of a file that had a remote match
JustReplaced ==
  /\ calls # << >>
  /\ LastCall.op = "Files.Insert media"
  /\ LastCall.found
  /\ LastCall.ok

\* C7 as stated: once a matched file is processed, the current folder holds exactly
\* one entry of its title, the new upload, whatever the listing was.
C7_SoleOccupant ==
  JustReplaced => TitledIn(remote, LastCall.parent, Base(LastCall.path)) = {LastCall.id}

\* C7 as amended: the successful upload of a matched file finds the matched entry
\* gone from the current folder and adds the new file to the entries of that title
\* there, leaving the others: the new file is the only one exactly when the folder
\* held no other entry of that title.
C7_ReplacesMatchedEntry ==
  [][(calls' # calls /\ JustReplaced') =>
       LET folder == LastCall'.parent
           title == Base(LastCall'.path)
       IN /\ LocalItem.DriveID \notin TitledIn(remote, folder, title)
          /\ LastCall'.id \notin TitledIn(remote, folder, title)
          /\ TitledIn(remote', folder, title) =
               TitledIn(remote, folder, title) \cup {LastCall'.id}
          /\ LocalItem.DriveID \in {Top.remoteItems[k].Id : k \in DOMAIN Top.remoteItems}
          /\ (TitledIn(remote', folder, title) = {LastCall'.id})
               <=> (TitledIn(remote, folder, title) = {})]_vars

\* a matched file replaced in a folder that holds another entry of its title
C7_Witness ==
  /\ JustReplaced
  /\ Cardinality(TitledIn(remote, LastCall.parent, Base(LastCall.path))) = 2
  /\ calls[Len(calls) - 1].id \notin ChildrenOf(remote, LastCall.parent)

(***************************************************************************)
(* C8                                                                      *)
(***************************************************************************)
\* C8: every entry the store held when the run started is, in every reachable
\* state, still a child of some folder, whatever the folder of old files is.
C8_NeverOrphaned == \A id \in DOMAIN remote0 : remote[id].Parents # {}

(***************************************************************************)
(* C9                                                                      *)
(***************************************************************************)
\* C9: a remote call that returns an error is the last call of the run: the process
\* has ended exactly when the last call failed, every activation of processNode is
\* gone and nothing more happens; the store is what the successful calls made it,
\* none of them undone.
C9_ErrorEndsRun ==
  /\ \A k \in DOMAIN calls : ~calls[k].ok => k = Len(calls)
  /\ status = "fatal: error" <=> (calls # << >> /\ ~LastCall.ok)
  /\ status = "fatal: error" => (stack = << >> /\ ~ENABLED Next)
  /\ remote = Replay(remote0, calls, 1)

\* a call failed after a mutation was committed and before every entry was handled
C9_Witness ==
  /\ status = "fatal: error"
  /\ \E k \in CallsOf(MutatingOps) : calls[k].ok
  /\ Len(out) < Cardinality(NonRoot)
  /\ remote # remote0

(***************************************************************************)
(* C10                                                                     *)
(***************************************************************************)
\* C10: with a required flag empty, or after a failed scan, the process is over
\* before processNode runs: nothing was scanned into a tree, no call was issued,
\* the counter is zero and nothing more happens.
C10_RefusesToStart ==
  ((gDriveRootID = "" \/ localDirToPush = "" \/ oldFilesDir = "") \/ status = "fatal: scan") =>
    /\ calls = << >>
    /\ opsExecuted = 0
    /\ stack = << >>
    /\ tree = {}
    /\ remote = remote0
    /\ status \in {"start", "fatal: flag", "fatal: scan"}
    /\ status # "start" => ~ENABLED Next

\* only the folder of old files was left out, and the process has ended
C10_Witness ==
  /\ status = "fatal: flag"
  /\ oldFilesDir = ""
  /\ gDriveRootID # ""
  /\ localDirToPush # ""

(***************************************************************************)
(* C11                                                                     *)
(***************************************************************************)
\* the position of the first item of a listing that carries the name
FirstTitled(remoteItems, name) ==
  CHOOSE k \in DOMAIN remoteItems :
    /\ remoteItems[k].Title = name
    /\ \A j \in 1..(k - 1) : remoteItems[j].Title # name

\* the nodes whose DriveID this step changes from a value that was not empty
Overwritten ==
  {p \in DOMAIN nodes \cap DOMAIN nodes' :
     nodes[p].DriveID # "" /\ nodes'[p].DriveID # nodes[p].DriveID}

\* C11 as stated: a DriveID that is not empty is never overwritten, for matched and
\* unmatched files and directories alike.
C11_WrittenOnce == [][Overwritten = {}]_vars

\* C11 as amended: a DriveID that is not empty is overwritten only by the successful
\* upload of a file whose name is in the listing: it was the identifier of the
\* first entry of that name and becomes the identifier the upload returned, which
\* it keeps; the DriveID of a directory or of an unmatched file is written once.
C11_WrittenOnceUnlessReplaced ==
  /\ [][\A p \in Overwritten :
          /\ p = ItemPath
          /\ ~nodes[p].IsDir
          /\ ListingHas(Top.remoteItems, Base(p))
          /\ nodes[p].DriveID =
               Top.remoteItems[FirstTitled(Top.remoteItems, Base(p))].Id
          /\ calls' = Append(calls, Call("Files.Insert media", p, nodes'[p].DriveID,
                                         Node.DriveID, TRUE, TRUE))
          /\ nodes'[p].DriveID \notin DOMAIN remote]_vars
  /\ [](\A k \in CallsOf({"Files.Insert folder", "Files.Insert media"}) :
          calls[k].ok => nodes[calls[k].path].DriveID = calls[k].id)

\* a matched file carries the identifier of its upload, not that of its match
C11_Witness ==
  \E k \in CallsOf({"Files.Insert media"}) :
    /\ calls[k].found
    /\ calls[k].ok
    /\ nodes[calls[k].path].DriveID = calls[k].id
    /\ calls[k - 1].id # calls[k].id
    /\ calls[k - 1].id \in DOMAIN remote0

(***************************************************************************)
(* C12                                                                     *)
(***************************************************************************)
\* the directories processNode has returned from without an error
FinishedDirs ==
  {d \in DOMAIN nodes :
     /\ nodes[d].IsDir
     /\ \/ status = "done"
        \/ \E n \in DOMAIN stack : d \in Finished(n)}

\* C12: every listing is asked with a DriveID that is not empty, the one the node has,
\* and every child of a directory processNode has returned from without an error
\* has a DriveID that is not empty.
C12_ResolvedBeforeListed ==
  /\ \A k \in CallsOf({"Files.List"}) :
       calls[k].id # "" /\ (status # "start" => calls[k].id = nodes[calls[k].path].DriveID)
  /\ \A n \in DOMAIN stack : nodes[stack[n].node].DriveID # ""
  /\ \A d \in FinishedDirs :
       \A j \in DOMAIN nodes[d].Children : nodes[nodes[d].Children[j]].DriveID # ""
  /\ \A n \in DOMAIN stack : \A p \in Finished(n) : nodes[p].DriveID # ""

\* a run that is done after it listed a directory below the root that has a child
C12_Witness ==
  /\ status = "done"
  /\ \E k \in CallsOf({"Files.List"}) :
       /\ calls[k].path \notin tree
       /\ calls[k].ok
       /\ nodes[calls[k].path].Children # << >>

(***************************************************************************)
(* C13                                                                     *)
(***************************************************************************)
\* the loop is at a directory whose name is in the listing
AtMatchedDir ==
  /\ AtItem
  /\ LocalItem.IsDir
  /\ ListingHas(Top.remoteItems, Base(ItemPath))

\* C13: the step taken at a local directory whose name is in the listing changes no
\* DriveID but that directory's, which becomes the identifier of the first entry of
\* that name; it issues no remote call, leaves the counter of operations and the
\* store as they are, prints the directory with the blank marker and goes on with
\* processNode on the directory.
C13_AdoptChangesOnlyDriveID ==
  [][AtMatchedDir =>
       /\ nodes' = [nodes EXCEPT ![ItemPath].DriveID =
                      Top.remoteItems[FirstTitled(Top.remoteItems, Base(ItemPath))].Id]
       /\ calls' = calls
       /\ opsExecuted' = opsExecuted
       /\ remote' = remote
       /\ nextId' = nextId
       /\ status' = status
       /\ out' = Append(out, [prefix |-> " ",
                              relName |-> Rel(Abs(localDirToPush), ItemPath),
                              dir |-> TRUE])
       /\ stack' = Append(stack, Frame(ItemPath))]_vars

\* processNode has just taken up a directory under the identifier of an entry the
\* store held before the run
C13_Witness ==
  /\ status = "running"
  /\ Len(stack) >= 2
  /\ Top.pc = "list"
  /\ Node.DriveID \in DOMAIN remote0
  /\ out # << >>
  /\ out[Len(out)].prefix = " "
  /\ out[Len(out)].relName = Rel(Abs(localDirToPush), Top.node)

(***************************************************************************)
(* C14                                                                     *)
(***************************************************************************)
\* the local path a status line is about
LinePath(line) == Abs(localDirToPush) \o line.relName

\* path p is d or lies below d
Below(p, d) == Len(d) <= Len(p) /\ SubSeq(p, 1, Len(d)) = d

\* r is, or lies below, a sibling that follows in the order of iteration the
\* sibling q is or lies below
Follows(r, q) ==
  \E d \in DOMAIN nodes :
    \E i1, i2 \in DOMAIN nodes[d].Children :
      /\ i1 < i2
      /\ Below(q, nodes[d].Children[i1])
      /\ Below(r, nodes[d].Children[i2])

\* the paths the remote calls and the status lines so far are about
EventPaths ==
  {calls[k].path : k \in DOMAIN calls} \cup {LinePath(out[k]) : k \in DOMAIN out}

\* the calls and the lines a step adds
NewCalls == {calls'[k] : k \in (Len(calls) + 1)..Len(calls')}

NewLines == {out'[k] : k \in (Len(out) + 1)..Len(out')}

\* the directories strictly above a path, the scanned one included
Above(p) == {d \in DOMAIN nodes : Below(p, d) /\ d # p}

ListedOk(log, d) ==
  \E k \in DOMAIN log : log[k].op = "Files.List" /\ log[k].path = d /\ log[k].ok

\* C14: the walk is depth-first and pre-order.  A step that prints the line of a
\* directory d leaves d with a DriveID (of a folder created by a call that is logged
\* when the marker is "+"), and d has not been listed nor has anything below it been
\* printed or called; a step that lists d finds d's line printed; a step that adds a
\* call or a line about a path finds every directory above the path listed, and finds
\* no call and no line about a sibling that follows, or about anything below one.
C14_DepthFirstPreOrder ==
  [][/\ \A l \in NewLines :
          LET d == LinePath(l)
          IN /\ nodes'[d].DriveID # ""
             /\ (l.dir /\ l.prefix = "+") =>
                  \E c \in NewCalls :
                    c.op = "Files.Insert folder" /\ c.path = d /\ c.ok
             /\ l.dir => \A p \in EventPaths : ~(Below(p, d) /\ (p # d \/ ListedOk(calls, d)))
             /\ \A d2 \in Above(d) : ListedOk(calls, d2)
             /\ \A r \in EventPaths : ~Follows(r, d)
     /\ \A c \in NewCalls :
          /\ c.op = "Files.List" /\ c.path \notin tree =>
               /\ \E k \in DOMAIN out : LinePath(out[k]) = c.path
               /\ nodes[c.path].DriveID = c.id
               /\ c.id # ""
          /\ \A d2 \in Above(c.path) : ListedOk(calls, d2)
          /\ \A r \in EventPaths : ~Follows(r, c.path)]_vars

\* a run is done on a directory d that has a child and a sibling following it
C14_Witness ==
  /\ status = "done"
  /\ \E d \in NonRoot :
       /\ nodes[d].Children # << >>
       /\ \E r \in NonRoot : Follows(r, d) /\ r \in EventPaths
       /\ \E p \in EventPaths : Below(p, d) /\ p # d

(***************************************************************************)
(* C15                                                                     *)
(***************************************************************************)
\* the last remote call was of that kind, on a file with a match, and failed
FailedAt(op) ==
  /\ calls # << >>
  /\ LastCall.op = op
  /\ ~LastCall.ok

\* no call of these kinds was issued for the local path of the last call
NoneIssuedFor(ops) == \A k \in CallsOf(ops) : calls[k].path # LastCall.path

\* C15: relocateFile is not atomic.  When Parents.Delete has failed after
\* Parents.Insert succeeded, the match is a child both of the folder it was listed
\* in and of the folder of old files, the process has ended and no upload was
\* issued for the file; a step in which Parents.Insert fails leaves the store as it
\* was, the process has ended and neither Parents.Delete nor an upload was issued
\* for the file.
C15_RelocationNotAtomic ==
  /\ [](FailedAt("Parents.Delete") =>
          /\ calls[Len(calls) - 1] = [LastCall EXCEPT !.op = "Parents.Insert",
                                                      !.parent = oldFilesDir,
                                                      !.ok = TRUE]
          /\ LastCall.parent = nodes[Dir(LastCall.path)].DriveID
          /\ {LastCall.parent, oldFilesDir} \subseteq remote[LastCall.id].Parents
          /\ status = "fatal: error"
          /\ ~ENABLED Next
          /\ NoneIssuedFor({"Files.Insert media"}))
  /\ [](FailedAt("Parents.Insert") =>
          /\ LastCall.parent = oldFilesDir
          /\ status = "fatal: error"
          /\ ~ENABLED Next
          /\ NoneIssuedFor({"Parents.Delete", "Files.Insert media"}))
  /\ [][\A c \in NewCalls :
          (c.op = "Parents.Insert" /\ ~c.ok) =>
            /\ remote' = remote
            /\ c.id \in DOMAIN remote]_vars

\* Parents.Delete has failed on a match listed in a folder other than that of old
\* files: the match has the two parents
C15_Witness ==
  /\ FailedAt("Parents.Delete")
  /\ LastCall.parent # oldFilesDir
  /\ remote[LastCall.id].Parents = {LastCall.parent, oldFilesDir}
  /\ remote0[LastCall.id].Parents = {LastCall.parent}

(***************************************************************************)
(* C16                                                                     *)
(***************************************************************************)
\* the identifier of the first item of a listing that carries the name
FirstId(remoteItems, name) == remoteItems[FirstTitled(remoteItems, name)].Id

\* C16: matching is by title alone.  Each directory is listed at most once; a child
\* is treated as matched exactly when the listing its parent's activation holds has
\* an item of its name, of whatever type; the match is the first such item: a
\* matched directory is printed with the blank marker and has the match's DriveID,
\* under which it is listed, a matched file is printed with "M" after Parents.Insert
\* was called on the match, and an unmatched child is printed with "+" and no
\* relocation is issued for it.
C16_MatchByTitleOnly ==
  /\ \A j, k \in CallsOf({"Files.List"}) : calls[j].path = calls[k].path => j = k
  /\ AtItem =>
       /\ Found <=> ListingHas(Top.remoteItems, Base(ItemPath))
       /\ Found => MatchId = FirstId(Top.remoteItems, Base(ItemPath))
       /\ Top.pc \in {"delete", "upload"} =>
            /\ ListingHas(Top.remoteItems, Base(ItemPath))
            /\ LocalItem.DriveID = FirstId(Top.remoteItems, Base(ItemPath))
  /\ \A n \in Listed :
       LET items == stack[n].remoteItems
       IN \A p \in Printed(n) :
            LET has == ListingHas(items, Base(p))
                relocations == {k \in CallsOf({"Parents.Insert", "Parents.Delete"}) :
                                  calls[k].path = p}
            IN /\ HasLine(out, IF has THEN (IF nodes[p].IsDir THEN " " ELSE "M") ELSE "+", p)
               /\ \A k \in DOMAIN out :
                    LinePath(out[k]) = p =>
                      out[k].prefix = IF has THEN (IF nodes[p].IsDir THEN " " ELSE "M") ELSE "+"
               /\ (has /\ nodes[p].IsDir) =>
                    /\ nodes[p].DriveID = FirstId(items, Base(p))
                    /\ \A k \in CallsOf({"Files.List"}) :
                         calls[k].path = p => calls[k].id = FirstId(items, Base(p))
                    /\ relocations = {}
               /\ (has /\ ~nodes[p].IsDir) =>
                    /\ relocations # {}
                    /\ \A k \in relocations : calls[k].id = FirstId(items, Base(p))
               /\ ~has => relocations = {}

\* a run is done in which a local directory was listed under the identifier of an
\* entry that is a file, and an entry that is a folder was relocated for a local file
C16_Witness ==
  /\ status = "done"
  /\ \E k \in CallsOf({"Files.List"}) :
       /\ calls[k].ok
       /\ calls[k].id \in DOMAIN remote0
       /\ ~remote0[calls[k].id].IsFolder
  /\ \E k \in CallsOf({"Parents.Delete"}) :
       /\ calls[k].ok
       /\ remote0[calls[k].id].IsFolder

(***************************************************************************)
(* C17                                                                     *)
(***************************************************************************)
\* NewTree has returned to main
TreeBuilt == status \notin {"start", "fatal: flag", "fatal: client", "fatal: scan"}

\* the positions at which a path is among the children of a node
ChildPositions(d, p) == {j \in DOMAIN nodes[d].Children : nodes[d].Children[j] = p}

\* C17: the tree NewTree returns has one root, the scanned directory, which has no
\* parent and is the child of no node; every other scanned path has for parent the
\* node of its filepath.Dir and is once among the children of that node and not
\* among those of any other, also when the scanned directory is the filesystem
\* root.
C17_OneRootNoCycle ==
  TreeBuilt =>
    LET root == Abs(localDirToPush)
    IN /\ tree = {root}
       /\ DOMAIN nodes = DOMAIN fs
       /\ nodes[root].Parent = {}
       /\ \A d \in DOMAIN nodes : ChildPositions(d, root) = {}
       /\ \A p \in DOMAIN nodes \ {root} :
            /\ nodes[p].Parent = {Dir(p)}
            /\ Len(Dir(p)) < Len(p)
            /\ \A d \in DOMAIN nodes :
                 Cardinality(ChildPositions(d, p)) = IF d = Dir(p) THEN 1 ELSE 0

(***************************************************************************)
(* C18                                                                     *)
(***************************************************************************)
\* an identifier of the store made independent of the order of creation: an entry
\* the run created is named by the local path it was created for
Origin(log, id) ==
  LET made == {k \in DOMAIN log :
                 /\ log[k].op \in {"Files.Insert folder", "Files.Insert media"}
                 /\ log[k].ok
                 /\ log[k].id = id}
  IN IF made = {} THEN [created |-> FALSE, id |-> id, path |-> << >>]
     ELSE [created |-> TRUE, id |-> "", path |-> log[CHOOSE k \in made : TRUE].path]

Canon(store, log) ==
  {[entry |-> Origin(log, id), Title |-> store[id].Title, IsFolder |-> store[id].IsFolder,
    Parents |-> {Origin(log, q) : q \in store[id].Parents}] : id \in DOMAIN store}

Markers(lines) == {[prefix |-> lines[k].prefix, relName |-> lines[k].relName] : k \in DOMAIN lines}

\* no two entries of a store have the same title: a listing of it has no two items
\* of the same name, whose order could decide a match
DistinctTitles(store) ==
  \A x, y \in DOMAIN store : store[x].Title = store[y].Title => x = y

\* C18: two runs that are done, on the same filesystem with the same flags against
\* the same store, the children ranged over in any two orders, print the same
\* marker for every path, count the same number of operations and leave the same
\* store up to the names of the entries they created (stated for the stores whose
\* listings cannot differ by more than the order of items of different names).
C18_OrderIndependent ==
  (status = "done" /\ history # << >> /\ DistinctTitles(remote0)) =>
    /\ Markers(out) = Markers(history[1].out)
    /\ opsExecuted = history[1].opsExecuted
    /\ Canon(remote, calls) = Canon(history[1].remote, history[1].calls)

(***************************************************************************)
(* C19                                                                     *)
(***************************************************************************)
Terminated == status \notin {"start", "running"}

\* C19: when every remote call returns the process ends; and when it ends without an
\* error and without reaching the ceiling, every directory was listed exactly once
\* and every entry below the scanned directory has exactly one status line.
C19_TerminatesEachOnce ==
  /\ <>Terminated
  /\ [](status = "done" =>
          /\ \A d \in DOMAIN nodes :
               Cardinality({k \in CallsOf({"Files.List"}) : calls[k].path = d /\ calls[k].ok})
                 = IF nodes[d].IsDir THEN 1 ELSE 0
          /\ \A k \in DOMAIN calls : calls[k].ok
          /\ \A p \in NonRoot :
               Cardinality({k \in DOMAIN out : LinePath(out[k]) = p}) = 1
          /\ Len(out) = Cardinality(NonRoot))

\* a run is done on a directory that holds a directory that holds an entry
C19_Witness ==
  /\ status = "done"
  /\ \E p \in NonRoot : nodes[p].Children # << >>
  /\ Cardinality(CallsOf({"Files.List"})) >= 2
  /\ Len(out) >= 2

====
